---- MODULE Spec2Model ----
(***************************************************************************)
(* siun: criteria-weighted update-urgency evaluation.                      *)
(*                                                                         *)
(* The module models                                                       *)
(*   - siun/state.py   : the Updates snapshot, Updates.update, the         *)
(*                       criterion registry (BUILTIN_CRITERIA and          *)
(*                       _load_user_criteria), persist_state / read_state  *)
(*                       with StateEncoder / StateDecoder;                 *)
(*   - siun/criteria.py: the builtin predicates;                           *)
(*   - siun/main.py    : one invocation of main();                         *)
(*   - siun/config.py  : get_config() and the validators of SiunConfig;    *)
(*   - the check command and _get_updates that tests/test_main.py calls.   *)
(*                                                                         *)
(* Names of criteria and keys of criteria_settings are sequences of the    *)
(* tokens that "_" separates: the key "count_weight" is <<"count",         *)
(* "weight">>, the file stem "test_criterion" is <<"test", "criterion">>.  *)
(***************************************************************************)
EXTENDS Integers, Sequences, FiniteSets, TLC

VARIABLES
    criteria_settings,  \* Updates.criteria_settings: key -> value
    thresholds,         \* Updates.thresholds: ordered dict, a sequence of [cutoff, name]
    available_updates,  \* Updates.available_updates: sequence of package names
    matched_criteria,   \* Updates.matched_criteria: name -> [weight |-> w]
    state,              \* Updates.state: a member of States
    last_state,         \* Updates.last_state, or NoAttribute
    last_update,        \* Updates.last_update: a time in ticks
    registry,           \* the module-level dict BUILTIN_CRITERIA: sequence of [name, crit]
    criteria_dir,       \* ~/.config/siun/criteria: [exists, files]
    executed,           \* stems of the files whose code the last update() executed
    evaluated,          \* names whose is_fulfilled the last update() called, in order
    error,              \* how the last update() ended
    calls,              \* update() calls made on the current Updates object
    rehydrated,         \* the Updates object was built from persisted fields
    repeated,           \* the last update() got the list that the call before
                        \* it on this Updates object got
    file,               \* the state file: [exists, data], data a sequence of members
    tmpfile,            \* the content of persist_state's NamedTemporaryFile
    ppc,                \* position of the running persist_state
    pending,            \* what shutil.copy has still to write
    prev_file,          \* the state file when the last persist_state began
    persisted,          \* the snapshot the last persist_state was called on
    writers,            \* two invocations that run persist_state on the same
                        \* path: for each its position, the content of its
                        \* temporary file and its offset in the state file
    loaded,             \* what read_state last returned, with ppc, persisted
                        \* and file as they were when it ran, and whether
                        \* read_state ran at all
    m_file,             \* main.py: the state file siun-state.json
    m_clock,            \* main.py: the wall clock, in ticks
    m_criteria,         \* main.py: config["criteria"]
    m_existing,         \* main(): existing_state of the last invocation
    m_now,              \* main(): now of the last invocation
    m_updates,          \* main(): updates.state when the last invocation ended
    m_log,              \* main(): what the last invocation did, in order
    m_exit,             \* main(): exit code of the last invocation
    m_config,           \* main(): how load_config() of the last invocation ended
    m_fetch,            \* main(): what the update command did when the last
                        \* invocation ran it
    m_output,           \* main(): what the last invocation printed
    m_options,          \* check: the options --no-cache and --no-update of
                        \* the last invocation
    c_user,             \* config.py: the user's config file, as _read_config returns it
    c_result            \* config.py: what get_config() last returned or raised

vars == <<criteria_settings, thresholds, available_updates, matched_criteria,
          state, last_state, last_update, registry, criteria_dir, executed, evaluated,
          error, calls, rehydrated, repeated, file, tmpfile, ppc, pending, prev_file,
          persisted, writers, loaded, m_file, m_clock, m_criteria, m_existing, m_now,
          m_updates, m_log, m_exit, m_config, m_fetch, m_output, m_options,
          c_user, c_result>>

engineVars == <<criteria_settings, thresholds, available_updates,
                matched_criteria, state, last_state, last_update, registry, criteria_dir,
                executed, evaluated, error, calls, rehydrated, repeated>>

persistVars == <<file, tmpfile, ppc, pending, prev_file, persisted, writers,
                 loaded>>

configVars == <<c_user, c_result>>

mainVars == <<m_file, m_clock, m_criteria, m_existing, m_now, m_updates,
              m_log, m_exit, m_config, m_fetch, m_output, m_options>>

----------------------------------------------------------------------------
(* Bounds of the model. *)

MaxLen == 2         \* longest list of available updates
MaxCalls == 2       \* update() calls counted on one snapshot (the counter saturates)
MaxThreshold == 2   \* largest count_threshold
MaxTime == 1        \* latest time, in ticks, of the engine's clock
MaxPad == 15        \* most "package" entries padding a scenario's list
TicksPerSec == 2    \* resolution of a timestamp below the second

----------------------------------------------------------------------------
(* Small helpers on sequences. *)

RECURSIVE SumWeights(_, _)
SumWeights(m, names) ==
    IF names = {} THEN 0
    ELSE LET n == CHOOSE x \in names : TRUE
         IN m[n].weight + SumWeights(m, names \ {n})

Range(s) == {s[i] : i \in DOMAIN s}

SeqsUpTo(S, n) == UNION {[1..k -> S] : k \in 0..n}

Min(a, b) == IF a < b THEN a ELSE b

----------------------------------------------------------------------------
(* siun/state.py: State, and the names of criteria and settings. *)

States == {"OK", "AVAILABLE_UPDATES", "WARNING_UPDATES", "CRITICAL_UPDATES",
           "UNKNOWN"}

Packages == {"siun", "linux"}

NoName == <<>>                       \* criterion_name = None

WeightKey(name) == name \o <<"weight">>          \* f"{name}_weight"

\* "_weight" in setting: some token after the first is "weight".
HasWeight(key) == \E i \in 2..Len(key) : key[i] = "weight"

\* setting.split("_weight")[0]: the tokens before the first "_weight".
SplitWeight(key) ==
    LET i == CHOOSE j \in 2..Len(key) :
                 /\ key[j] = "weight"
                 /\ \A k \in 2..(j - 1) : key[k] # "weight"
    IN SubSeq(key, 1, i - 1)

----------------------------------------------------------------------------
(* siun/criteria.py: the predicates.  A predicate returns "true" or        *)
(* "false", or "raise" when the call raises.  critical_pattern is the set  *)
(* of package names regex.match accepts.                                   *)

CriterionAvailableSingle(settings, updates) ==
    IF Len(updates) = 1 THEN "true" ELSE "false"

CriterionAvailable(settings, updates) ==
    IF updates # <<>> THEN "true" ELSE "false"

CriterionCountStrict(settings, updates) ==
    IF <<"count", "threshold">> \notin DOMAIN settings THEN "raise"
    ELSE IF Len(updates) > settings[<<"count", "threshold">>]
         THEN "true" ELSE "false"

CriterionCount(settings, updates) ==
    IF <<"count", "threshold">> \notin DOMAIN settings THEN "raise"
    ELSE IF Len(updates) >= settings[<<"count", "threshold">>]
         THEN "true" ELSE "false"

CriterionCritical(settings, updates) ==
    IF <<"critical", "pattern">> \notin DOMAIN settings THEN "raise"
    ELSE IF \E i \in DOMAIN updates :
                updates[i] \in settings[<<"critical", "pattern">>]
         THEN "true" ELSE "false"

\* criterion.is_fulfilled(criteria_settings, available_updates); the User*
\* criteria are the SiunCriterion classes of files in the criteria directory.
IsFulfilled(crit, settings, updates) ==
    CASE crit = "CriterionAvailable" -> CriterionAvailable(settings, updates)
      [] crit = "CriterionCount" -> CriterionCount(settings, updates)
      [] crit = "CriterionCritical" -> CriterionCritical(settings, updates)
      [] crit = "UserTrue" -> "true"
      [] crit = "UserFalse" -> "false"
      [] crit = "UserRaise" -> "raise"

BUILTIN_CRITERIA ==
    << [name |-> <<"available">>, crit |-> "CriterionAvailable"],
       [name |-> <<"count">>, crit |-> "CriterionCount"],
       [name |-> <<"critical">>, crit |-> "CriterionCritical"] >>

----------------------------------------------------------------------------
(* Python dict: an ordered dict is a sequence of entries; setting a key    *)
(* that is present replaces its value in place, a new key is appended.     *)

RegistryNames(reg) == {reg[i].name : i \in DOMAIN reg}

RegistrySet(reg, name, crit) ==
    IF name \in RegistryNames(reg)
    THEN [i \in DOMAIN reg |->
            IF reg[i].name = name THEN [name |-> name, crit |-> crit]
            ELSE reg[i]]
    ELSE Append(reg, [name |-> name, crit |-> crit])

\* criteria.update(user_criteria)
RECURSIVE RegistryUpdate(_, _, _)
RegistryUpdate(reg, user, i) ==
    IF i > Len(user) THEN reg
    ELSE RegistryUpdate(RegistrySet(reg, user[i].name, user[i].crit), user, i + 1)

----------------------------------------------------------------------------
(* siun/state.py: _load_user_criteria. *)

\* enabled_criteria
EnabledCriteria(settings) ==
    {SplitWeight(k) : k \in {x \in DOMAIN settings :
                                 HasWeight(x) /\ settings[x] > 0}}

\* The loop over include_path.iterdir(): files[i..] are still to be visited.
RECURSIVE LoadFiles(_, _, _, _, _)
LoadFiles(files, i, enabled, user, ran) ==
    IF i > Len(files)
    THEN [criteria |-> user, executed |-> ran, raised |-> FALSE]
    ELSE LET f == files[i]
         IN IF ~f.py \/ f.stem \notin enabled
            THEN LoadFiles(files, i + 1, enabled, user, ran)
            ELSE IF f.exec_raises
            THEN [criteria |-> <<>>, executed |-> ran \cup {f.stem},
                  raised |-> TRUE]
            ELSE LoadFiles(files, i + 1, enabled,
                           IF f.has_class
                           THEN RegistrySet(user, f.stem, f.crit) ELSE user,
                           ran \cup {f.stem})

LoadUserCriteria(settings, dir) ==
    IF ~dir.exists
    THEN [criteria |-> <<>>, executed |-> {}, raised |-> FALSE]
    ELSE LoadFiles(dir.files, 1, EnabledCriteria(settings), <<>>, {})

----------------------------------------------------------------------------
(* siun/state.py: Updates. *)

NoError == [kind |-> "none", criterion_name |-> NoName]

\* An Updates object has the attributes __init__ assigns: criteria_settings,
\* thresholds, available_updates, matched_criteria, state, last_update.
\* It has no attribute last_state.
NoAttribute == "AttributeError"

CriterionError(name) == [kind |-> "CriterionError", criterion_name |-> name]

\* self.criteria_settings[f"{name}_weight"] of a name without weight
KeyError(name) == [kind |-> "KeyError", criterion_name |-> name]

ScoreCount(matched) == Cardinality(DOMAIN matched)

\* Updates.score
Score(matched) == SumWeights(matched, DOMAIN matched)

MatchedAdd(matched, name, w) ==
    [n \in DOMAIN matched \cup {name} |->
        IF n # name THEN matched[n]
        ELSE IF name \in DOMAIN matched
             THEN [weight |-> matched[name].weight + w]
             ELSE [weight |-> w]]

\* self.matched_criteria[name] = {"weight": w}
MatchedSet(matched, name, w) ==
    [n \in DOMAIN matched \cup {name} |->
        IF n = name THEN [weight |-> w] ELSE matched[n]]

\* if self.criteria_settings[f"{name}_weight"] <= 0: continue
SkipCriterionNegative(settings, name) == settings[WeightKey(name)] < 0

SkipCriterion(settings, name) == settings[WeightKey(name)] <= 0

\* except Exception as error: raise CriterionError(message, name)
RaisedUnnamed(matched, seen, name) ==
    [matched |-> matched, evaluated |-> seen, err |-> CriterionError(NoName)]

Raised(matched, seen, name) ==
    [matched |-> matched, evaluated |-> seen, err |-> CriterionError(name)]

\* The loop "for name, criterion in criteria.items()" from entry i on.
RECURSIVE CheckCriteria(_, _, _, _, _, _)
CheckCriteria(reg, i, settings, updates, matched, seen) ==
    IF i > Len(reg)
    THEN [matched |-> matched, evaluated |-> seen, err |-> NoError]
    ELSE LET name == reg[i].name
         IN IF WeightKey(name) \notin DOMAIN settings
            THEN [matched |-> matched, evaluated |-> seen,
                  err |-> KeyError(name)]
            ELSE IF SkipCriterion(settings, name)
            THEN CheckCriteria(reg, i + 1, settings, updates, matched, seen)
            ELSE LET r == IsFulfilled(reg[i].crit, settings, updates)
                     now_seen == Append(seen, name)
                 IN IF r = "raise"
                    THEN Raised(matched, now_seen, name)
                    ELSE CheckCriteria(reg, i + 1, settings, updates,
                             IF r = "true"
                             THEN MatchedSet(matched, name,
                                             settings[WeightKey(name)])
                             ELSE matched,
                             now_seen)

\* The loop over reversed(self.thresholds.keys()) from entry i down; st is
\* self.state so far.
RECURSIVE ResolveState(_, _, _, _)
ResolveState(ths, i, score, st) ==
    IF i < 1 THEN st
    ELSE IF score >= ths[i].cutoff THEN ths[i].name
    ELSE ResolveState(ths, i - 1, score, "OK")

\* State(f"{name.value.upper()}_UPDATES").name
LevelState(level) ==
    CASE level = "available" -> "AVAILABLE_UPDATES"
      [] level = "warning" -> "WARNING_UPDATES"
      [] level = "critical" -> "CRITICAL_UPDATES"

ThresholdCutoffs(ths) == {ths[i].cutoff : i \in DOMAIN ths}

ThresholdSet(ths, cutoff, name) ==
    IF cutoff \in ThresholdCutoffs(ths)
    THEN [i \in DOMAIN ths |->
            IF ths[i].cutoff = cutoff THEN [cutoff |-> cutoff, name |-> name]
            ELSE ths[i]]
    ELSE Append(ths, [cutoff |-> cutoff, name |-> name])

\* Updates.__init__: the dict comprehension over thresholds_settings.items()
RECURSIVE ThresholdsOf(_, _, _)
ThresholdsOf(settings, i, ths) ==
    IF i > Len(settings) THEN ths
    ELSE ThresholdsOf(settings, i + 1,
             ThresholdSet(ths, settings[i].cutoff, LevelState(settings[i].level)))

\* Updates.update(available_updates) at time t on the snapshot
\* [available_updates, matched_criteria, state, last_update] with the
\* registry reg: the snapshot, the registry and the outcome after the call.
UpdateResult(snap, settings, ths, reg, dir, updates, t) ==
    LET load == LoadUserCriteria(settings, dir)
        tracked == [snap EXCEPT !.last_update = t,
                                !.available_updates = updates]
    IN IF load.raised
       THEN [snap |-> tracked, registry |-> reg, executed |-> load.executed,
             evaluated |-> <<>>, error |-> CriterionError(NoName)]
       ELSE LET criteria == RegistryUpdate(reg, load.criteria, 1)
                chk == CheckCriteria(criteria, 1, settings, updates,
                                     snap.matched_criteria, <<>>)
                checked == [tracked EXCEPT !.matched_criteria = chk.matched]
            IN [snap |-> IF chk.err # NoError THEN checked
                         ELSE [checked EXCEPT !.state =
                                  ResolveState(ths, Len(ths),
                                               Score(chk.matched), snap.state)],
                registry |-> criteria, executed |-> load.executed,
                evaluated |-> chk.evaluated, error |-> chk.err]

Snapshot ==
    [available_updates |-> available_updates,
     matched_criteria |-> matched_criteria,
     state |-> state, last_update |-> last_update]

----------------------------------------------------------------------------
(* The configurations and inputs the engine is run on. *)

NoMatches == [n \in {} |-> [weight |-> 0]]       \* matched_criteria = {}

\* criteria of get_config's defaults, with the given weights and threshold
BaseSettings(wa, wc, wk, ct) ==
    [k \in {<<"available", "weight">>, <<"count", "weight">>,
            <<"count", "threshold">>, <<"critical", "weight">>,
            <<"critical", "pattern">>} |->
        CASE k = <<"available", "weight">> -> wa
          [] k = <<"count", "weight">> -> wc
          [] k = <<"count", "threshold">> -> ct
          [] k = <<"critical", "weight">> -> wk
          [] k = <<"critical", "pattern">> -> {"linux"}]

With(settings, key, value) ==
    [k \in DOMAIN settings \cup {key} |->
        IF k = key THEN value ELSE settings[k]]

Without(settings, key) == [k \in DOMAIN settings \ {key} |-> settings[k]]

TestCriterion == <<"test", "criterion">>

\* Settings around the user criterion test_criterion and a builtin whose
\* parameter is missing.
SettingsVariants(base) ==
    { With(base, WeightKey(TestCriterion), 0),
      With(base, WeightKey(TestCriterion), 2),
      With(With(base, WeightKey(TestCriterion), 0),
           <<"test", "criterion", "weight", "scale">>, 1),
      Without(base, <<"count", "threshold">>) }

\* criteria settings that name the builtin criteria only
BuiltinSettings ==
    {BaseSettings(wa, wc, wk, ct) :
        wa \in {0, 1}, wc \in {0, 1}, wk \in {0, 2}, ct \in 1..MaxThreshold}

\* criteria settings with an entry for a user criterion, or without the
\* count_threshold that CriterionCount reads
UserSettings ==
    SettingsVariants(BaseSettings(1, 1, 2, 1))
    \cup SettingsVariants(BaseSettings(1, 0, 2, 1))

UserFile(stem, py, has_class, crit, exec_raises) ==
    [stem |-> stem, py |-> py, has_class |-> has_class, crit |-> crit,
     exec_raises |-> exec_raises]

NoDir == [exists |-> FALSE, files |-> <<>>]

Dir(files) == [exists |-> TRUE, files |-> files]

AllDirs ==
    { NoDir,
      Dir(<<>>),
      Dir(<<UserFile(TestCriterion, TRUE, TRUE, "UserTrue", FALSE)>>),
      Dir(<<UserFile(TestCriterion, TRUE, TRUE, "UserRaise", FALSE)>>),
      Dir(<<UserFile(TestCriterion, TRUE, FALSE, "UserTrue", FALSE)>>),
      Dir(<<UserFile(TestCriterion, FALSE, TRUE, "UserTrue", FALSE)>>),
      Dir(<<UserFile(TestCriterion, TRUE, TRUE, "UserTrue", TRUE)>>),
      Dir(<<UserFile(<<"count">>, TRUE, TRUE, "UserFalse", FALSE),
            UserFile(TestCriterion, TRUE, TRUE, "UserTrue", FALSE)>>) }

Level(level, cutoff) == [level |-> level, cutoff |-> cutoff]

DefaultThresholds ==
    <<Level("available", 1), Level("warning", 2), Level("critical", 3)>>

\* thresholds_settings of the engine's runs: the default table, and the
\* same levels configured in another order.
SomeThresholds ==
    { DefaultThresholds,
      <<Level("critical", 3), Level("available", 1), Level("warning", 2)>> }

UpdateLists == SeqsUpTo(Packages, MaxLen)

----------------------------------------------------------------------------
(* siun/state.py: StateEncoder, StateDecoder, SiunState.  A JSON document  *)
(* is the sequence of the members of its top-level object; a file holds a  *)
(* prefix of a document while it is being written.                         *)

NoFile == [exists |-> FALSE, data |-> <<>>]

\* datetime.isoformat(): the fraction of a second is written only when it
\* is not zero.
IsoFormatSeconds(t) == [sec |-> t \div TicksPerSec, frac |-> <<>>]

IsoFormat(t) ==
    [sec |-> t \div TicksPerSec,
     frac |-> IF t % TicksPerSec = 0 THEN <<>> ELSE <<t % TicksPerSec>>]

\* datetime.fromisoformat()
FromIsoFormat(iso) ==
    iso.sec * TicksPerSec + (IF iso.frac = <<>> THEN 0 ELSE iso.frac[1])

\* StateEncoder.default: {"py-type": type(o).__name__, "value": ...}
EncodeEnum(st) == [pytype |-> "State", value |-> st]

EncodeDatetime(t) == [pytype |-> "datetime", value |-> IsoFormat(t)]

\* json.dump writes an int key of a dict as the string of its digits.
JsonKey(n) == [digits |-> n]

\* json.dump(self.__dict__, update_file, cls=StateEncoder)
JsonDump(settings, ths, snap) ==
    << [key |-> "criteria_settings", value |-> settings],
       [key |-> "thresholds",
        value |-> [i \in DOMAIN ths |->
                     [cutoff |-> JsonKey(ths[i].cutoff), name |-> ths[i].name]]],
       [key |-> "available_updates", value |-> snap.available_updates],
       [key |-> "matched_criteria", value |-> snap.matched_criteria],
       [key |-> "state", value |-> EncodeEnum(snap.state)],
       [key |-> "last_update", value |-> EncodeDatetime(snap.last_update)] >>

\* StateDecoder._custom_object_hook on a tagged object
ObjectHook(o) ==
    CASE o.pytype = "datetime" -> [ok |-> TRUE, value |-> FromIsoFormat(o.value)]
      [] o.pytype \in {"StateText", "StateColor", "State"} ->
             [ok |-> TRUE, value |-> o.value]
      [] OTHER -> [ok |-> FALSE, value |-> <<>>]

\* pydantic's dict[int, str]: a key of digits becomes the int.
ParseThresholds(v) ==
    [i \in DOMAIN v |-> [cutoff |-> v[i].cutoff.digits, name |-> v[i].name]]

DocumentKeys ==
    <<"criteria_settings", "thresholds", "available_updates",
      "matched_criteria", "state", "last_update">>

\* A complete document, as json.dump wrote it.
IsDocument(data) ==
    /\ Len(data) = Len(DocumentKeys)
    /\ \A i \in DOMAIN data : data[i].key = DocumentKeys[i]

MissingNever(f) == FALSE

\* not update_file_path.exists()
Missing(f) == ~f.exists

ReadFailureSwallowed == [kind |-> "none", value |-> <<>>]

\* json.load or SiunState(**...) raises, and read_state lets it through.
ReadFailure == [kind |-> "error", value |-> <<>>]

\* Updates.read_state on the file f: None, a SiunState, or an exception
\* (json.load on a text that is no JSON document).
ReadStateResult(f) ==
    IF Missing(f) THEN [kind |-> "none", value |-> <<>>]
    ELSE IF ~IsDocument(f.data) THEN ReadFailure
    ELSE LET st == ObjectHook(f.data[5].value)
             lu == ObjectHook(f.data[6].value)
         IN IF ~st.ok \/ ~lu.ok \/ st.value \notin States
            THEN ReadFailure
            ELSE [kind |-> "state",
                  value |-> [criteria_settings |-> f.data[1].value,
                             thresholds |-> ParseThresholds(f.data[2].value),
                             available_updates |-> f.data[3].value,
                             matched_criteria |-> f.data[4].value,
                             state |-> st.value,
                             last_update |-> lu.value]]

----------------------------------------------------------------------------
(* siun/main.py: its own Updates and UpdateState, its state file, and one  *)
(* invocation of main().                                                   *)

\* UpdateState(available_updates=[])
NoUpdateState ==
    [available_updates |-> <<>>, score |-> 0, count |-> 0,
     text_value |-> "OK", color |-> "OK", last_update |-> 0]

\* thresholds of main(): score -> name of the StateText and StateColor
MainThresholds ==
    [sc \in 0..3 |->
        CASE sc = 0 -> "OK"
          [] sc = 1 -> "AVAILABLE_UPDATES"
          [] sc = 2 -> "WARNING_UPDATES"
          [] sc = 3 -> "CRITICAL_UPDATES"]

\* Updates._criteria_count
MainCriteriaCount(criteria, updates) ==
    Len(updates) > criteria[<<"count", "threshold">>]

\* Updates._criteria_critical
MainCriteriaCritical(criteria, updates) ==
    \E i \in DOMAIN updates : updates[i] \in criteria[<<"critical", "pattern">>]

\* Updates.update of main.py, the clock reading t
MainUpdate(criteria, updates, t) ==
    LET score == (IF Len(updates) > 0 THEN 1 ELSE 0)
                 + (IF MainCriteriaCount(criteria, updates) THEN 1 ELSE 0)
                 + (IF MainCriteriaCritical(criteria, updates) THEN 1 ELSE 0)
        last_threshold == 3
        name == IF score >= last_threshold THEN MainThresholds[last_threshold]
                ELSE MainThresholds[score]
    IN [available_updates |-> updates, score |-> score,
        count |-> Len(updates), text_value |-> name, color |-> name,
        last_update |-> t]

\* _persist_state: json.dump(asdict(updates.state), ..., cls=StateEncoder)
MainDump(st) ==
    [available_updates |-> st.available_updates, score |-> st.score,
     count |-> st.count,
     text_value |-> [pytype |-> "StateText", value |-> st.text_value],
     color |-> [pytype |-> "StateColor", value |-> st.color],
     last_update |-> EncodeDatetime(st.last_update)]

MainNoFile == [exists |-> FALSE, data |-> MainDump(NoUpdateState)]

\* StateDecoder.object_hook of main.py on a tagged object
MainObjectHook(o) ==
    CASE o.pytype = "datetime" -> [ok |-> TRUE, value |-> FromIsoFormat(o.value)]
      [] o.pytype \in {"StateText", "StateColor"} ->
             [ok |-> TRUE, value |-> o.value]
      [] OTHER -> [ok |-> FALSE, value |-> <<>>]

NoExisting == [kind |-> "none", value |-> NoUpdateState]

\* _read_state: None, or json.load(update_file, cls=StateDecoder)
MainReadState(f) ==
    IF ~f.exists THEN NoExisting
    ELSE [kind |-> "state",
          value |-> [available_updates |-> f.data.available_updates,
                     score |-> f.data.score, count |-> f.data.count,
                     text_value |-> MainObjectHook(f.data.text_value).value,
                     color |-> MainObjectHook(f.data.color).value,
                     last_update |-> MainObjectHook(f.data.last_update).value]]

CacheMinutes == 30

\* datetime.timedelta(minutes=30), in ticks
CacheAge == CacheMinutes * 60 * TicksPerSec

MainFreshNoAge(existing, now) == existing.kind = "state"

\* existing_state and (existing_state["last_update"] > now - timedelta(minutes=30))
MainFresh(existing, now) ==
    existing.kind = "state" /\ existing.value.last_update > now - CacheAge

\* What _get_available_updates can do: return the lines of the command,
\* return [] (exit code 1 without output), sys.exit(1) after a failure, or
\* let the FileNotFoundError of a missing executable through.
FetchOutcomes ==
    {[kind |-> "lines", lines |-> l] : l \in UpdateLists}
    \cup {[kind |-> k, lines |-> <<>>] : k \in {"silent", "failed", "missing"}}

\* The command was not run.
NoFetch == [kind |-> "none", lines |-> <<>>]

GetAvailableUpdatesLenient(fetch) ==
    IF fetch.kind \in {"lines", "silent", "failed"}
    THEN [ok |-> TRUE, lines |-> fetch.lines]
    ELSE [ok |-> FALSE, lines |-> <<>>]

\* _get_available_updates(): the lines of the output; [] when the command
\* exits with code 1 and prints nothing; sys.exit(1) on any other failure
\* of the command; the FileNotFoundError of subprocess.run is not caught.
GetAvailableUpdates(fetch) ==
    IF fetch.kind \in {"lines", "silent"}
    THEN [ok |-> TRUE, lines |-> fetch.lines]
    ELSE [ok |-> FALSE, lines |-> <<>>]

\* Formatter.format_plain: state.text_value.value
FormatPlain(st) == st.text_value

NoOutput == ""

\* main() takes no option that concerns the cache.
NoOptions == [no_cache |-> FALSE, no_update |-> FALSE]

\* main() from "updates = Updates(...)" on: the state file f, the clock
\* reading now, what the update source does when it is asked.
MainResult(f, criteria, now, fetch) ==
    LET existing == MainReadState(f)
        got == GetAvailableUpdates(fetch)
    IN IF MainFresh(existing, now)
       THEN LET st == MainUpdate(criteria, existing.value.available_updates, now)
            IN [existing |-> existing, file |-> f, exit |-> 0, updates |-> st,
                fetch |-> NoFetch, output |-> FormatPlain(st),
                log |-> <<"read", "update", "output">>]
       ELSE IF ~got.ok
       THEN [existing |-> existing, file |-> f, exit |-> 1,
             updates |-> NoUpdateState, fetch |-> fetch, output |-> NoOutput,
             log |-> <<"read", "fetch">>]
       ELSE LET st == MainUpdate(criteria, got.lines, now)
            IN [existing |-> existing, exit |-> 0, updates |-> st,
                file |-> [exists |-> TRUE, data |-> MainDump(st)],
                fetch |-> fetch, output |-> FormatPlain(st),
                log |-> <<"read", "fetch", "update", "persist", "output">>]

----------------------------------------------------------------------------
(* siun/config.py: get_config() on the user's config file, and the         *)
(* validators of SiunConfig. A V2Threshold is [name, score]: its text and  *)
(* color take no part in validation or sorting.                            *)

DefaultCountThreshold == 15

DefaultLastupdateAge == 618

V2Threshold(name, score) == [name |-> name, score |-> score]

get_default_thresholds ==
    <<V2Threshold("critical", 3), V2Threshold("warning", 2),
      V2Threshold("available", 1)>>

\* config_dict["criteria"] of get_config
DefaultCriteria ==
    [k \in {<<"available", "weight">>, <<"critical", "pattern">>,
            <<"critical", "weight">>, <<"count", "threshold">>,
            <<"count", "weight">>, <<"lastupdate", "age", "hours">>,
            <<"lastupdate", "weight">>} |->
        CASE k = <<"critical", "pattern">> -> {"linux"}
          [] k = <<"count", "threshold">> -> DefaultCountThreshold
          [] k = <<"lastupdate", "age", "hours">> -> DefaultLastupdateAge
          [] OTHER -> 1]

\* _update_nested on the criteria table: the user's keys win, the other
\* default keys stay.
UpdateNested(d, u) ==
    [k \in DOMAIN d \cup DOMAIN u |-> IF k \in DOMAIN u THEN u[k] ELSE d[k]]

UniqueScores(value) ==
    Cardinality({value[i].score : i \in DOMAIN value}) = Len(value)

\* thresholds_must_have_unique_name: len(unique_names) == len(value)
UniqueNames(value) ==
    Cardinality({value[i].name : i \in DOMAIN value}) = Len(value)

\* names of criteria_must_have_weight: key.split("_")[0] of the keys with "_"
CriteriaNames(value) == {k[1] : k \in {key \in DOMAIN value : Len(key) >= 2}}

MissingWeightsLoose(value) ==
    {name \in CriteriaNames(value) :
        ~\E k \in DOMAIN value : k[1] = name /\ HasWeight(k)}

\* missing_weights of criteria_must_have_weight
MissingWeights(value) ==
    {name \in CriteriaNames(value) : <<name, "weight">> \notin DOMAIN value}

\* Index of the first threshold of the highest score.
FirstHighest(ths) ==
    CHOOSE i \in DOMAIN ths :
        /\ \A j \in DOMAIN ths : ths[j].score <= ths[i].score
        /\ \A j \in 1..(i - 1) : ths[j].score < ths[i].score

\* sorted(self.v2_thresholds, key=lambda item: item.score, reverse=True):
\* descending by score, thresholds of equal score in their given order.
RECURSIVE SortedThresholds(_)
SortedThresholds(ths) ==
    IF ths = <<>> THEN <<>>
    ELSE LET i == FirstHighest(ths)
         IN <<ths[i]>> \o SortedThresholds(SubSeq(ths, 1, i - 1)
                                             \o SubSeq(ths, i + 1, Len(ths)))

NoCriteria == [k \in {} |-> 0]

NoLegacy == [given |-> FALSE, available |-> 0, warning |-> 0, critical |-> 0]

NoV2 == [given |-> FALSE, list |-> <<>>]

\* The config file: absent, unreadable (OSError), no TOML, or a table with
\* the keys criteria, v2_thresholds and thresholds.
UserConfig(status, criteria, v2, legacy) ==
    [file |-> status, criteria |-> criteria, v2 |-> v2, legacy |-> legacy]

NoResult ==
    [kind |-> "none", errors |-> {}, missing |-> {}, criteria |-> NoCriteria,
     v2_thresholds |-> <<>>, sorted_thresholds |-> <<>>]

\* get_config(): a SiunConfig, a ConfigError (the file cannot be opened or
\* is no TOML) or the ValidationError of SiunConfig(**config_dict). The
\* model has no field "thresholds", and pydantic ignores a key that is no
\* field.
GetConfigResult(user) ==
    IF user.file \in {"unreadable", "malformed"}
    THEN [NoResult EXCEPT !.kind = "ConfigError"]
    ELSE LET given == user.file = "ok"
             criteria == IF given THEN UpdateNested(DefaultCriteria, user.criteria)
                         ELSE DefaultCriteria
             v2 == IF given /\ user.v2.given THEN user.v2.list
                   ELSE get_default_thresholds
             missing == MissingWeights(criteria)
             errors == (IF UniqueNames(v2) THEN {} ELSE {"unique name"})
                       \cup (IF missing = {} THEN {} ELSE {"missing weight"})
         IN IF errors # {}
            THEN [NoResult EXCEPT !.kind = "ValidationError",
                                  !.errors = errors, !.missing = missing]
            ELSE [kind |-> "config", errors |-> {}, missing |-> {},
                  criteria |-> criteria, v2_thresholds |-> v2,
                  sorted_thresholds |-> SortedThresholds(v2)]

ConfigIdle ==
    /\ c_user = UserConfig("absent", NoCriteria, NoV2, NoLegacy)
    /\ c_result = NoResult

----------------------------------------------------------------------------
(* The engine: one Updates snapshot in one process. *)

Writers == {1, 2}

\* No invocation is in persist_state.
NoWriters == [w \in Writers |-> [pc |-> "idle", doc |-> <<>>, pos |-> 0]]

PersistIdle ==
    /\ file = NoFile
    /\ tmpfile = <<>>
    /\ ppc = "idle"
    /\ pending = <<>>
    /\ prev_file = NoFile
    /\ persisted = <<>>
    /\ writers = NoWriters
    /\ loaded = [kind |-> "none", value |-> <<>>, ppc |-> "idle",
                 persisted |-> <<>>, file |-> NoFile, reads |-> 0]

MainIdle ==
    /\ m_file = MainNoFile
    /\ m_clock = 0
    /\ m_criteria = BaseSettings(1, 1, 1, 1)
    /\ m_existing = NoExisting
    /\ m_now = 0
    /\ m_updates = NoUpdateState
    /\ m_log = <<>>
    /\ m_exit = 0
    /\ m_config = "none"
    /\ m_fetch = NoFetch
    /\ m_output = NoOutput
    /\ m_options = NoOptions

\* Updates.__init__ without persisted data.
InitSnapshot(settings, ths_settings) ==
    /\ criteria_settings = settings
    /\ thresholds = ThresholdsOf(ths_settings, 1, <<>>)
    /\ available_updates = <<>>
    /\ matched_criteria = NoMatches
    /\ state = "UNKNOWN"
    /\ last_state = NoAttribute
    /\ last_update = 0
    /\ registry = BUILTIN_CRITERIA
    /\ executed = {}
    /\ evaluated = <<>>
    /\ error = NoError
    /\ calls = 0
    /\ rehydrated = FALSE
    /\ repeated = FALSE

Init ==
    /\ \/ /\ \E settings \in BuiltinSettings, ths \in SomeThresholds :
                 InitSnapshot(settings, ths)
          /\ criteria_dir = NoDir
       \/ /\ \E settings \in UserSettings, ths \in SomeThresholds :
                 InitSnapshot(settings, ths)
          /\ criteria_dir \in AllDirs
    /\ PersistIdle
    /\ MainIdle
    /\ ConfigIdle

\* updates.update(available_updates=list), the clock reading t
UpdateWith(lists) ==
    \E updates \in lists, t \in last_update..Min(last_update + 1, MaxTime) :
        \E r \in {UpdateResult(Snapshot, criteria_settings, thresholds,
                                registry, criteria_dir, updates, t)} :
           /\ available_updates' = r.snap.available_updates
           /\ matched_criteria' = r.snap.matched_criteria
           /\ state' = r.snap.state
           /\ last_update' = r.snap.last_update
           /\ registry' = r.registry
           /\ executed' = r.executed
           /\ evaluated' = r.evaluated
           /\ error' = r.error
           /\ calls' = Min(calls + 1, MaxCalls)
           /\ repeated' = (calls >= 1 /\ updates = available_updates)
           /\ UNCHANGED <<criteria_settings, thresholds, criteria_dir,
                          rehydrated, last_state>>
           /\ UNCHANGED persistVars
           /\ UNCHANGED mainVars
           /\ UNCHANGED configVars

Update == UpdateWith(UpdateLists)

\* A later process rebuilds the snapshot from its persisted fields
\* (Updates.__init__ with every field given): the module-level registry is
\* that of a new interpreter.
Rehydrate ==
    /\ calls >= 1
    /\ error = NoError
    /\ registry' = BUILTIN_CRITERIA
    /\ executed' = {}
    /\ evaluated' = <<>>
    /\ calls' = 0
    /\ rehydrated' = TRUE
    /\ repeated' = FALSE
    /\ UNCHANGED <<criteria_settings, thresholds, available_updates,
                   matched_criteria, state, last_state, last_update,
                   criteria_dir, error>>
    /\ UNCHANGED persistVars
    /\ UNCHANGED mainVars
    /\ UNCHANGED configVars

Next == Update \/ Rehydrate

Spec == Init /\ [][Next]_vars

----------------------------------------------------------------------------
(* Persistence: the process updates its snapshot and persists it with      *)
(* persist_state, whose steps are its operations on the file system; at    *)
(* any moment another invocation may run read_state on the same path.      *)

PersistLists == {<<>>, <<"siun">>, <<"siun", "linux">>}

PersistInit ==
    /\ InitSnapshot(BaseSettings(1, 1, 2, 2), DefaultThresholds)
    /\ criteria_dir = NoDir
    /\ PersistIdle
    /\ MainIdle
    /\ ConfigIdle

PersistUpdate == ppc = "idle" /\ UpdateWith(PersistLists)

\* tempfile.NamedTemporaryFile(mode="w+"); json.dump(...); flush()
PersistDump ==
    /\ ppc = "idle"
    /\ calls >= 1
    /\ error = NoError
    /\ ppc' = "dumped"
    /\ tmpfile' = JsonDump(criteria_settings, thresholds, Snapshot)
    /\ prev_file' = file
    /\ persisted' = Snapshot
    /\ UNCHANGED <<file, pending, loaded, writers>>
    /\ UNCHANGED engineVars
    /\ UNCHANGED mainVars
    /\ UNCHANGED configVars

\* shutil.copy(update_file.name, update_file_path) opens the destination
\* for writing: the file is created, or truncated to no content.
CopyOpen ==
    /\ ppc = "dumped"
    /\ ppc' = "copying"
    /\ file' = [exists |-> TRUE, data |-> <<>>]
    /\ pending' = tmpfile
    /\ UNCHANGED <<tmpfile, prev_file, persisted, loaded, writers>>
    /\ UNCHANGED engineVars
    /\ UNCHANGED mainVars
    /\ UNCHANGED configVars

\* shutil.copy writes the next part of the content.
CopyWrite ==
    /\ ppc = "copying"
    /\ pending # <<>>
    /\ \E k \in 1..Len(pending) :
           /\ file' = [file EXCEPT !.data = @ \o SubSeq(pending, 1, k)]
           /\ pending' = SubSeq(pending, k + 1, Len(pending))
    /\ UNCHANGED <<tmpfile, ppc, prev_file, persisted, loaded, writers>>
    /\ UNCHANGED engineVars
    /\ UNCHANGED mainVars
    /\ UNCHANGED configVars

\* shutil.copy returns and the with block deletes the temporary file.
CopyClose ==
    /\ ppc = "copying"
    /\ pending = <<>>
    /\ ppc' = "idle"
    /\ tmpfile' = <<>>
    /\ UNCHANGED <<file, pending, prev_file, persisted, loaded, writers>>
    /\ UNCHANGED engineVars
    /\ UNCHANGED mainVars
    /\ UNCHANGED configVars

\* Updates.read_state(path), by this or by another invocation.
ReadState ==
    /\ \E r \in {ReadStateResult(file)} :
           loaded' = [kind |-> r.kind, value |-> r.value, ppc |-> ppc,
                      persisted |-> persisted, file |-> file,
                      reads |-> 1]
    /\ UNCHANGED <<file, tmpfile, ppc, pending, prev_file, persisted, writers>>
    /\ UNCHANGED engineVars
    /\ UNCHANGED mainVars
    /\ UNCHANGED configVars

PersistNext ==
    \/ PersistUpdate
    \/ PersistDump
    \/ CopyOpen
    \/ CopyWrite
    \/ CopyClose
    \/ ReadState

PersistSpec == PersistInit /\ [][PersistNext]_vars

----------------------------------------------------------------------------
(* read_state on any state file: one a persist_state wrote, a truncated    *)
(* one, or one whose content does not fit SiunState.                       *)

LoadSettings == BaseSettings(1, 1, 2, 2)

\* Snapshots a state file can hold.
LoadSnapshots ==
    {[available_updates |-> l, matched_criteria |-> m, state |-> st,
      last_update |-> t] :
        l \in PersistLists,
        m \in {NoMatches, [n \in {<<"available">>} |-> [weight |-> 1]]},
        st \in States,
        t \in 0..MaxTime}

\* The documents persist_state writes for them.
LoadDocuments ==
    {JsonDump(LoadSettings, ThresholdsOf(DefaultThresholds, 1, <<>>), snap) :
        snap \in LoadSnapshots}

\* A document cut off before its end: no JSON text.
TruncatedDocuments ==
    {SubSeq(doc, 1, k) : doc \in LoadDocuments, k \in 0..(Len(DocumentKeys) - 1)}

\* JSON documents that do not fit SiunState: a State value that is no
\* member of State, a py-type the decoder does not know, a missing field.
InvalidDocuments ==
    {[doc EXCEPT ![5].value.value = "BOGUS"] : doc \in LoadDocuments}
    \cup {[doc EXCEPT ![5].value.pytype = "Other"] : doc \in LoadDocuments}
    \cup {[doc EXCEPT ![6].value.pytype = "Other"] : doc \in LoadDocuments}
    \cup {SubSeq(doc, 1, 2) \o SubSeq(doc, 4, 6) : doc \in LoadDocuments}

StateFiles ==
    {NoFile}
    \cup {[exists |-> TRUE, data |-> d] :
             d \in LoadDocuments \cup TruncatedDocuments \cup InvalidDocuments}

LoadInit ==
    /\ InitSnapshot(LoadSettings, DefaultThresholds)
    /\ criteria_dir = NoDir
    /\ file \in StateFiles
    /\ tmpfile = <<>>
    /\ ppc = "idle"
    /\ pending = <<>>
    /\ prev_file = file
    /\ persisted = <<>>
    /\ writers = NoWriters
    /\ loaded = [kind |-> "none", value |-> <<>>, ppc |-> "idle",
                 persisted |-> <<>>, file |-> NoFile, reads |-> 0]
    /\ MainIdle
    /\ ConfigIdle

LoadNext == ReadState

LoadSpec == LoadInit /\ [][LoadNext]_vars

----------------------------------------------------------------------------
(* get_config() on a user's config file.                                   *)

MaxScore == 3       \* largest score of a configured threshold
MaxLevels == 3      \* most thresholds in a v2_thresholds list

LevelNames == {"available", "warning", "critical"}

\* Entries a user adds to [criteria].
UserEntries ==
    {<<"custom", "threshold">>, <<"custom", "weight">>,
     <<"test", "criterion", "weight">>, <<"test", "weight">>,
     <<"count", "weight">>, <<"verbose">>}

UserCriteria == {[k \in keys |-> 1] : keys \in SUBSET UserEntries}

V2Lists ==
    SeqsUpTo({V2Threshold(n, sc) : n \in LevelNames, sc \in 1..MaxScore},
             MaxLevels)

LegacyTables ==
    {[given |-> TRUE, available |-> a, warning |-> w, critical |-> c] :
        a \in 1..MaxScore, w \in 1..MaxScore, c \in 1..MaxScore}

UserConfigs ==
    {UserConfig(st, NoCriteria, NoV2, NoLegacy) :
        st \in {"absent", "unreadable", "malformed"}}
    \cup {UserConfig("ok", cr, NoV2, NoLegacy) : cr \in UserCriteria}
    \cup {UserConfig("ok", NoCriteria, [given |-> TRUE, list |-> l], NoLegacy) :
             l \in V2Lists}
    \cup {UserConfig("ok", NoCriteria, NoV2, lg) : lg \in LegacyTables}

ConfigInit ==
    /\ InitSnapshot(BaseSettings(1, 1, 2, 2), DefaultThresholds)
    /\ criteria_dir = NoDir
    /\ PersistIdle
    /\ MainIdle
    /\ c_user \in UserConfigs
    /\ c_result = NoResult

\* config = get_config()
GetConfig ==
    /\ c_result' = GetConfigResult(c_user)
    /\ UNCHANGED c_user
    /\ UNCHANGED engineVars
    /\ UNCHANGED persistVars
    /\ UNCHANGED mainVars

ConfigNext == GetConfig

ConfigSpec == ConfigInit /\ [][ConfigNext]_vars

----------------------------------------------------------------------------
(* The command line: invocations of main(), one after the other, on the    *)
(* same state file.                                                        *)

MainInit ==
    /\ InitSnapshot(BaseSettings(1, 1, 2, 2), DefaultThresholds)
    /\ criteria_dir = NoDir
    /\ PersistIdle
    /\ m_file = MainNoFile
    /\ m_clock = 0
    /\ m_criteria \in {BaseSettings(1, 1, 1, ct) : ct \in 1..MaxThreshold}
    /\ m_existing = NoExisting
    /\ m_now = 0
    /\ m_updates = NoUpdateState
    /\ m_log = <<>>
    /\ m_exit = 0
    /\ m_config = "none"
    /\ m_fetch = NoFetch
    /\ m_output = NoOutput
    /\ m_options = NoOptions
    /\ ConfigIdle

\* Time passes between two invocations: none, or about the cache age.
Delays == {0, CacheAge - 1, CacheAge, CacheAge + 1}

MaxClock == 2 * CacheAge + 2

MainConfigErrorLate ==
    /\ \E d \in Delays : m_clock + d <= MaxClock /\ m_clock' = m_clock + d
    /\ m_log' = <<"read", "config">>
    /\ m_exit' = 1
    /\ m_config' = "error"
    /\ m_fetch' = NoFetch
    /\ m_output' = NoOutput
    /\ m_existing' = MainReadState(m_file)
    /\ m_updates' = NoUpdateState
    /\ m_now' = m_clock'
    /\ UNCHANGED <<m_file, m_criteria, m_options>>
    /\ UNCHANGED engineVars
    /\ UNCHANGED persistVars
    /\ UNCHANGED configVars

\* load_config() fails: main() ends before it builds its Updates.
MainConfigError ==
    /\ \E d \in Delays : m_clock + d <= MaxClock /\ m_clock' = m_clock + d
    /\ m_log' = <<"config">>
    /\ m_exit' = 1
    /\ m_config' = "error"
    /\ m_fetch' = NoFetch
    /\ m_output' = NoOutput
    /\ m_existing' = NoExisting
    /\ m_updates' = NoUpdateState
    /\ m_now' = m_clock'
    /\ UNCHANGED <<m_file, m_criteria, m_options>>
    /\ UNCHANGED engineVars
    /\ UNCHANGED persistVars
    /\ UNCHANGED configVars

\* One invocation of main() with a readable configuration.
MainRun ==
    /\ \E d \in Delays, fetch \in FetchOutcomes :
           /\ m_clock + d <= MaxClock
           /\ m_clock' = m_clock + d
           /\ \E r \in {MainResult(m_file, m_criteria, m_clock + d, fetch)} :
                  /\ m_existing' = r.existing
                  /\ m_file' = r.file
                  /\ m_exit' = r.exit
                  /\ m_updates' = r.updates
                  /\ m_fetch' = r.fetch
                  /\ m_output' = r.output
                  /\ m_log' = <<"config">> \o r.log
    /\ m_config' = "ok"
    /\ m_now' = m_clock'
    /\ UNCHANGED <<m_criteria, m_options>>
    /\ UNCHANGED engineVars
    /\ UNCHANGED persistVars
    /\ UNCHANGED configVars

MainNext == MainRun \/ MainConfigError

MainSpec == MainInit /\ [][MainNext]_vars

----------------------------------------------------------------------------
(* The check command and its operation _get_updates, with the options      *)
(* --no-cache and --no-update. They work on the Updates of state.py and    *)
(* on its state file.                                                      *)

MaxCheckClock == 3      \* latest time, in ticks, of an invocation of check

CheckMinAge == 1        \* cache_min_age_minutes, in ticks

CheckSettings == BaseSettings(1, 1, 2, 2)

Options == [no_cache : BOOLEAN, no_update : BOOLEAN]

\* What the update source does when check asks it.
CheckFetches ==
    {[kind |-> "lines", lines |-> l] : l \in PersistLists}
    \cup {[kind |-> k, lines |-> <<>>] : k \in {"silent", "failed", "missing"}}

UsesCacheAlways(opts) == TRUE

\* The persisted state is read, and written, unless --no-cache is given.
UsesCache(opts) == ~opts.no_cache

\* A loaded snapshot is stale when its age exceeds the minimum age.
CheckStale(existing, now) ==
    existing.kind # "state" \/ now - existing.value.last_update > CheckMinAge

\* Updates(criteria_settings=..., thresholds_settings=...) at the time now
FreshSnapshot(now) ==
    [available_updates |-> <<>>, matched_criteria |-> NoMatches,
     state |-> "UNKNOWN", last_update |-> now]

NoUpdate ==
    [registry |-> BUILTIN_CRITERIA, executed |-> {}, evaluated |-> <<>>,
     error |-> NoError]

\* _get_updates(no_cache, no_update, ...) on the state file f at the time
\* now: the Updates it returns, the state file it leaves, what it did.
GetUpdatesResult(opts, f, settings, ths, dir, now, fetch) ==
    LET cached == UsesCache(opts)
        existing == IF cached THEN ReadStateResult(f)
                    ELSE [kind |-> "none", value |-> <<>>]
        start == IF existing.kind = "state"
                 THEN [available_updates |-> existing.value.available_updates,
                       matched_criteria |-> existing.value.matched_criteria,
                       state |-> existing.value.state,
                       last_update |-> existing.value.last_update]
                 ELSE FreshSnapshot(now)
        did_read == IF cached THEN <<"read">> ELSE <<>>
        got == GetAvailableUpdates(fetch)
        idle == [ok |-> TRUE, snap |-> start, file |-> f, log |-> did_read,
                 fetch |-> NoFetch, updated |-> FALSE,
                 rehydrated |-> existing.kind = "state", upd |-> NoUpdate]
    IN IF existing.kind = "error"
       THEN [idle EXCEPT !.ok = FALSE]
       ELSE IF opts.no_update \/ (cached /\ ~CheckStale(existing, now))
       THEN idle
       ELSE IF ~got.ok
       THEN [idle EXCEPT !.ok = FALSE, !.log = did_read \o <<"fetch">>,
                         !.fetch = fetch]
       ELSE LET r == UpdateResult(start, settings, ths, BUILTIN_CRITERIA, dir,
                                  got.lines, now)
                done == [idle EXCEPT
                            !.snap = r.snap, !.fetch = fetch,
                            !.updated = TRUE,
                            !.upd = [registry |-> r.registry,
                                     executed |-> r.executed,
                                     evaluated |-> r.evaluated,
                                     error |-> r.error]]
            IN IF r.error # NoError
               THEN [done EXCEPT !.ok = FALSE,
                                 !.log = did_read \o <<"fetch", "update">>]
               ELSE IF cached
               THEN [done EXCEPT
                        !.file = [exists |-> TRUE,
                                  data |-> JsonDump(settings, ths, r.snap)],
                        !.log = did_read \o <<"fetch", "update", "persist">>]
               ELSE [done EXCEPT !.log = <<"fetch", "update">>]

\* The Updates object _get_updates returned.
Adopt(r) ==
    /\ available_updates' = r.snap.available_updates
    /\ matched_criteria' = r.snap.matched_criteria
    /\ state' = r.snap.state
    /\ last_update' = r.snap.last_update
    /\ registry' = r.upd.registry
    /\ executed' = r.upd.executed
    /\ evaluated' = r.upd.evaluated
    /\ error' = r.upd.error
    /\ calls' = IF r.updated THEN 1 ELSE 0
    /\ rehydrated' = r.rehydrated
    /\ repeated' = FALSE
    /\ UNCHANGED <<criteria_settings, thresholds, criteria_dir, last_state>>

CheckInit ==
    /\ InitSnapshot(CheckSettings, DefaultThresholds)
    /\ criteria_dir = NoDir
    /\ PersistIdle
    /\ MainIdle
    /\ ConfigIdle

\* _get_updates(...) called as an operation of its own.
GetUpdates ==
    /\ \E opts \in Options, fetch \in CheckFetches,
          now \in m_clock..Min(m_clock + 2, MaxCheckClock) :
          \E r \in {GetUpdatesResult(opts, file, criteria_settings, thresholds,
                                     criteria_dir, now, fetch)} :
             /\ Adopt(r)
             /\ prev_file' = file
             /\ file' = r.file
             /\ m_options' = opts
             /\ m_clock' = now
             /\ m_now' = now
             /\ m_log' = r.log
             /\ m_exit' = IF r.ok THEN 0 ELSE 1
             /\ m_fetch' = r.fetch
    /\ m_config' = "none"
    /\ m_output' = NoOutput
    /\ UNCHANGED <<m_file, m_criteria, m_existing, m_updates>>
    /\ UNCHANGED <<tmpfile, ppc, pending, persisted, loaded, writers>>
    /\ UNCHANGED configVars

\* check ends before _get_updates: get_config() raised a ConfigError, or
\* --no-cache and --no-update were both given.
CheckRejected ==
    /\ \E opts \in Options, config \in {"ok", "error"},
          now \in m_clock..Min(m_clock + 2, MaxCheckClock) :
          /\ config = "error" \/ (opts.no_cache /\ opts.no_update)
          /\ m_options' = opts
          /\ m_config' = config
          /\ m_clock' = now
          /\ m_now' = now
    /\ m_log' = <<"config">>
    /\ m_exit' = 1
    /\ m_fetch' = NoFetch
    /\ m_output' = "Error"
    /\ prev_file' = file
    /\ UNCHANGED <<m_file, m_criteria, m_existing, m_updates>>
    /\ UNCHANGED <<file, tmpfile, ppc, pending, persisted, loaded, writers>>
    /\ UNCHANGED engineVars
    /\ UNCHANGED configVars

\* check with a valid configuration and options that go together.
Check ==
    /\ \E opts \in Options, fetch \in CheckFetches,
          now \in m_clock..Min(m_clock + 2, MaxCheckClock) :
          /\ ~(opts.no_cache /\ opts.no_update)
          /\ \E r \in {GetUpdatesResult(opts, file, criteria_settings,
                                        thresholds, criteria_dir, now, fetch)} :
                /\ Adopt(r)
                /\ prev_file' = file
                /\ file' = r.file
                /\ m_options' = opts
                /\ m_clock' = now
                /\ m_now' = now
                /\ m_log' = <<"config">> \o r.log
                              \o (IF r.ok THEN <<"output">> ELSE <<>>)
                /\ m_exit' = IF r.ok THEN 0 ELSE 1
                /\ m_fetch' = r.fetch
                /\ m_output' = IF r.ok THEN r.snap.state ELSE "Error"
    /\ m_config' = "ok"
    /\ UNCHANGED <<m_file, m_criteria, m_existing, m_updates>>
    /\ UNCHANGED <<tmpfile, ppc, pending, persisted, loaded, writers>>
    /\ UNCHANGED configVars

CheckNext == GetUpdates \/ CheckRejected \/ Check

CheckSpec == CheckInit /\ [][CheckNext]_vars

----------------------------------------------------------------------------
(* Updates on any threshold table: no level, some levels or all of them,   *)
(* in any order of configuration, with cutoffs that may be equal or zero.  *)

MaxCutoff == 2      \* largest cutoff of a configured level

TableSettings ==
    {BaseSettings(wa, wc, wk, 2) : wa \in {0, 1}, wc \in {0, 1}, wk \in {0, 2}}

\* thresholds_settings: a dict from level to cutoff, in insertion order
ThresholdTables ==
    {t \in SeqsUpTo({Level(l, c) : l \in {"available", "warning", "critical"},
                                   c \in 0..MaxCutoff}, 3) :
        \A i, j \in DOMAIN t : i # j => t[i].level # t[j].level}

TableInit ==
    /\ \E settings \in TableSettings, ths \in ThresholdTables :
           InitSnapshot(settings, ths)
    /\ criteria_dir = NoDir
    /\ PersistIdle
    /\ MainIdle
    /\ ConfigIdle

\* A list, and lists that extend it.
TableLists == {<<>>, <<"siun">>, <<"linux">>, <<"siun", "linux">>}

TableUpdate == UpdateWith(TableLists)

TableNext == TableUpdate

TableSpec == TableInit /\ [][TableNext]_vars

----------------------------------------------------------------------------
(* Two invocations run persist_state on the same path at the same time.    *)
(* Each has its own snapshot and its own temporary file; shutil.copy opens *)
(* the state file for writing, which truncates it, and writes the content  *)
(* part by part at its own offset.                                         *)

\* Snapshots the two invocations persist: update() on a new Updates.
RaceSnapshots ==
    {UpdateResult(FreshSnapshot(t), CheckSettings,
                  ThresholdsOf(DefaultThresholds, 1, <<>>), BUILTIN_CRITERIA,
                  NoDir, l, t).snap : l \in PersistLists, t \in 0..MaxTime}

\* Bytes that a write beyond the end of a file leaves unwritten.
Hole == [key |-> "hole", value |-> <<>>]

\* write() of the members part at the offset pos of a file that holds data
WriteAt(data, pos, part) ==
    [i \in 1..(IF pos + Len(part) > Len(data) THEN pos + Len(part)
               ELSE Len(data)) |->
        IF i > pos /\ i <= pos + Len(part) THEN part[i - pos]
        ELSE IF i <= Len(data) THEN data[i]
        ELSE Hole]

RaceInit ==
    /\ InitSnapshot(CheckSettings, DefaultThresholds)
    /\ criteria_dir = NoDir
    /\ PersistIdle
    /\ MainIdle
    /\ ConfigIdle

\* tempfile.NamedTemporaryFile(mode="w+"); json.dump(...); flush()
RaceDump(w) ==
    /\ writers[w].pc = "idle"
    /\ \E snap \in RaceSnapshots :
           writers' = [writers EXCEPT ![w] =
                          [pc |-> "dumped", pos |-> 0,
                           doc |-> JsonDump(criteria_settings, thresholds,
                                            snap)]]
    /\ UNCHANGED <<file, tmpfile, ppc, pending, prev_file, persisted, loaded>>
    /\ UNCHANGED engineVars
    /\ UNCHANGED mainVars
    /\ UNCHANGED configVars

\* shutil.copy opens the state file for writing.
RaceOpen(w) ==
    /\ writers[w].pc = "dumped"
    /\ writers' = [writers EXCEPT ![w].pc = "copying"]
    /\ file' = [exists |-> TRUE, data |-> <<>>]
    /\ UNCHANGED <<tmpfile, ppc, pending, prev_file, persisted, loaded>>
    /\ UNCHANGED engineVars
    /\ UNCHANGED mainVars
    /\ UNCHANGED configVars

\* shutil.copy writes the next part of the content.
RaceWrite(w) ==
    /\ writers[w].pc = "copying"
    /\ writers[w].pos < Len(writers[w].doc)
    /\ \E k \in 1..(Len(writers[w].doc) - writers[w].pos) :
           /\ file' = [file EXCEPT !.data =
                          WriteAt(@, writers[w].pos,
                                  SubSeq(writers[w].doc, writers[w].pos + 1,
                                         writers[w].pos + k))]
           /\ writers' = [writers EXCEPT ![w].pos = @ + k]
    /\ UNCHANGED <<tmpfile, ppc, pending, prev_file, persisted, loaded>>
    /\ UNCHANGED engineVars
    /\ UNCHANGED mainVars
    /\ UNCHANGED configVars

\* shutil.copy returns, persist_state returns.
RaceClose(w) ==
    /\ writers[w].pc = "copying"
    /\ writers[w].pos = Len(writers[w].doc)
    /\ writers' = [writers EXCEPT ![w].pc = "done"]
    /\ UNCHANGED <<file, tmpfile, ppc, pending, prev_file, persisted, loaded>>
    /\ UNCHANGED engineVars
    /\ UNCHANGED mainVars
    /\ UNCHANGED configVars

RaceNext ==
    \E w \in Writers :
        \/ RaceDump(w)
        \/ RaceOpen(w)
        \/ RaceWrite(w)
        \/ RaceClose(w)

RaceSpec == RaceInit /\ [][RaceNext]_vars

----------------------------------------------------------------------------
(* One process that builds one Updates object after the other, each with   *)
(* its own criteria_settings, while the criteria directory changes. The    *)
(* module-level dict BUILTIN_CRITERIA lives as long as the process.        *)

ProcessSettings ==
    { BaseSettings(1, 1, 2, 1),
      With(BaseSettings(1, 1, 2, 1), WeightKey(TestCriterion), 2),
      With(BaseSettings(1, 1, 2, 1), WeightKey(TestCriterion), 0) }

ProcessDirs ==
    { NoDir,
      Dir(<<UserFile(TestCriterion, TRUE, TRUE, "UserTrue", FALSE)>>),
      Dir(<<UserFile(<<"count">>, TRUE, TRUE, "UserFalse", FALSE)>>) }

ProcessInit ==
    /\ \E settings \in ProcessSettings : InitSnapshot(settings, DefaultThresholds)
    /\ criteria_dir \in ProcessDirs
    /\ PersistIdle
    /\ MainIdle
    /\ ConfigIdle

ProcessUpdate == UpdateWith(PersistLists)

\* Updates(criteria_settings=..., thresholds_settings=...) in the same
\* process, on the criteria directory as it is by then.
NewUpdates ==
    /\ calls >= 1
    /\ criteria_settings' \in ProcessSettings
    /\ criteria_dir' \in ProcessDirs
    /\ available_updates' = <<>>
    /\ matched_criteria' = NoMatches
    /\ state' = "UNKNOWN"
    /\ last_update' = last_update
    /\ executed' = {}
    /\ evaluated' = <<>>
    /\ error' = NoError
    /\ calls' = 0
    /\ rehydrated' = FALSE
    /\ repeated' = FALSE
    /\ UNCHANGED <<thresholds, registry, last_state>>
    /\ UNCHANGED persistVars
    /\ UNCHANGED mainVars
    /\ UNCHANGED configVars

ProcessNext == ProcessUpdate \/ NewUpdates

ProcessSpec == ProcessInit /\ [][ProcessNext]_vars

----------------------------------------------------------------------------
(* The scenario of the test_defaults tests of test_state.py: the default  *)
(* thresholds, every builtin weight 1, count_threshold 15, a pattern that  *)
(* matches "linux", and lists padded with "package".                       *)

ScenarioSettings == BaseSettings(1, 1, 1, DefaultCountThreshold)

Pad(k) == [i \in 1..k |-> "package"]

ScenarioLists ==
    {p \o Pad(k) : p \in {<<>>, <<"siun">>, <<"linux">>, <<"siun", "linux">>},
                   k \in 0..MaxPad}

ScenarioInit ==
    /\ InitSnapshot(ScenarioSettings, DefaultThresholds)
    /\ criteria_dir = NoDir
    /\ PersistIdle
    /\ MainIdle
    /\ ConfigIdle

ScenarioUpdate == UpdateWith(ScenarioLists)

ScenarioNext == ScenarioUpdate \/ Rehydrate

ScenarioSpec == ScenarioInit /\ [][ScenarioNext]_vars

----------------------------------------------------------------------------
(* Claims on Updates.update. *)

\* The weight criteria_settings configures for a criterion, 0 without one.
ConfiguredWeight(name) ==
    IF WeightKey(name) \in DOMAIN criteria_settings
    THEN criteria_settings[WeightKey(name)] ELSE 0

CritOf(name) == registry[CHOOSE i \in DOMAIN registry : registry[i].name = name].crit

IndexOf(name) == CHOOSE i \in DOMAIN registry : registry[i].name = name

Outcome(name) == IsFulfilled(CritOf(name), criteria_settings, available_updates)

Succeeded == calls >= 1 /\ error = NoError

\* C1: after successful update() calls, matched_criteria holds exactly the
\* criteria of positive weight that the list of the most recent call
\* fulfils, each with its weight; nothing matched only earlier remains.
C1_MatchedFromLastList ==
    Succeeded =>
        /\ DOMAIN matched_criteria =
               {n \in RegistryNames(registry) :
                    ConfiguredWeight(n) > 0 /\ Outcome(n) = "true"}
        /\ \A n \in DOMAIN matched_criteria :
               matched_criteria[n].weight = ConfiguredWeight(n)

\* C2: the state update() sets is the state of the numerically highest
\* cutoff that is <= the score, or OK when no cutoff is, in whatever order
\* the levels were configured.
C2_HighestCutoffWins ==
    Succeeded =>
        LET S == Score(matched_criteria)
            met == {i \in DOMAIN thresholds : thresholds[i].cutoff <= S}
        IN IF met = {} THEN state = "OK"
           ELSE \E i \in met :
                   /\ \A j \in met : thresholds[j].cutoff <= thresholds[i].cutoff
                   /\ state = thresholds[i].name

\* C3: with the builtin criteria and count_threshold >= 1, update([]) on
\* any reachable snapshot yields matched_criteria = {}, score 0, state OK.
C3_EmptyListIsOk ==
    ( /\ Succeeded
      /\ available_updates = <<>>
      /\ registry = BUILTIN_CRITERIA
      /\ <<"count", "threshold">> \in DOMAIN criteria_settings
      /\ criteria_settings[<<"count", "threshold">>] >= 1 )
    => /\ matched_criteria = NoMatches
       /\ Score(matched_criteria) = 0
       /\ state = "OK"

\* C15: update(X) called twice in a row with the same list X leaves, after
\* the second call, the matched_criteria, the score and the state that the
\* first call left.
C15_Idempotent ==
    [][repeated' =>
          /\ matched_criteria' = matched_criteria
          /\ Score(matched_criteria') = Score(matched_criteria)
          /\ state' = state]_vars

C15_Witness ==
    /\ repeated
    /\ error = NoError
    /\ available_updates = <<"siun", "linux">>
    /\ Score(matched_criteria) = 3
    /\ state = "CRITICAL_UPDATES"

FirstCallOnFresh == calls = 1 /\ ~rehydrated /\ error = NoError

\* A step of update(): calls counts them, and Rehydrate sets it to 0.
UpdateStep == calls' >= 1 /\ vars' # vars

\* C21: update() records the state the snapshot had before the call into
\* last_state, so that after a successful call last_state is the pre-call
\* state and state is the newly resolved state.
C21_LastStateRecorded ==
    [][(UpdateStep /\ error' = NoError) =>
          /\ last_state' = state
          /\ state' = ResolveState(thresholds, Len(thresholds),
                                    Score(matched_criteria'), state)]_vars

\* C24: an update() that raises leaves no partial result: the snapshot's
\* available_updates, matched_criteria, score, state and last_update are
\* what they were before the call.
C24_NoPartialResult ==
    [][(UpdateStep /\ error' # NoError) =>
          /\ available_updates' = available_updates
          /\ matched_criteria' = matched_criteria
          /\ Score(matched_criteria') = Score(matched_criteria)
          /\ state' = state
          /\ last_update' = last_update]_vars

\* The sum of the weights criteria_settings configures for the names.
RECURSIVE SumConfigured(_)
SumConfigured(names) ==
    IF names = {} THEN 0
    ELSE LET n == CHOOSE x \in names : TRUE
         IN ConfiguredWeight(n) + SumConfigured(names \ {n})

\* C26: in every reachable snapshot (new, rehydrated, after any number of
\* update() calls, failed ones included) every weight recorded in
\* matched_criteria is the positive weight configured for that criterion,
\* and score is the sum of these weights.
C26_ScoreIsSum ==
    /\ \A n \in DOMAIN matched_criteria :
           /\ matched_criteria[n].weight = ConfiguredWeight(n)
           /\ matched_criteria[n].weight > 0
    /\ Score(matched_criteria) = SumConfigured(DOMAIN matched_criteria)

C26_Witness ==
    /\ rehydrated
    /\ Succeeded
    /\ DOMAIN matched_criteria = {<<"available">>, <<"critical">>}
    /\ matched_criteria[<<"critical">>].weight = 2
    /\ Score(matched_criteria) = 3

\* The criteria of a settings object and a criteria directory: the
\* builtins, and over them the user criteria that are enabled and present.
CriteriaFor(settings, dir) ==
    RegistryUpdate(BUILTIN_CRITERIA, LoadUserCriteria(settings, dir).criteria, 1)

\* C27: the criteria an update() call evaluates are determined by the
\* snapshot's criteria_settings and the content of the criteria directory
\* alone: a user criterion, or a user override of a builtin, that an
\* earlier update() call registered is not in the registry of a later call
\* for which it is not enabled or no longer present.
C27_RegistryFromSettings ==
    (calls >= 1 /\ ~LoadUserCriteria(criteria_settings, criteria_dir).raised)
        => registry = CriteriaFor(criteria_settings, criteria_dir)

\* Position of a state in the order OK < AVAILABLE_UPDATES <
\* WARNING_UPDATES < CRITICAL_UPDATES of the State enum.
Severity(st) ==
    CASE st = "OK" -> 0
      [] st = "AVAILABLE_UPDATES" -> 1
      [] st = "WARNING_UPDATES" -> 2
      [] st = "CRITICAL_UPDATES" -> 3
      [] st = "UNKNOWN" -> 4

\* The list y holds every entry of the list x, in the order of x.
RECURSIVE Extends(_, _)
Extends(y, x) ==
    IF x = <<>> THEN TRUE
    ELSE IF y = <<>> THEN FALSE
    ELSE IF Head(x) = Head(y)
         THEN Extends(Tail(y), Tail(x)) \/ Extends(Tail(y), x)
    ELSE Extends(Tail(y), x)

\* The cutoffs of the threshold table increase with severity.
IncreasingCutoffs ==
    /\ thresholds # <<>>
    /\ \A i, j \in DOMAIN thresholds :
           Severity(thresholds[i].name) < Severity(thresholds[j].name)
               => thresholds[i].cutoff <= thresholds[j].cutoff

\* update(x) on a new snapshot with the settings and thresholds of this one
UpdateOfFresh(x) ==
    UpdateResult(FreshSnapshot(0), criteria_settings, thresholds,
                 BUILTIN_CRITERIA, criteria_dir, x, last_update)

\* C30: with non-negative weights and the builtin criteria, if the list Y
\* holds every entry of the list X, then on equal new snapshots the score
\* after update(Y) is >= the score after update(X), and with cutoffs that
\* increase with severity the state after update(Y) is at least as severe
\* as the state after update(X).
C30_Monotonic ==
    FirstCallOnFresh =>
        \A x \in UpdateLists :
            Extends(available_updates, x) =>
                \E r \in {UpdateOfFresh(x)} :
                    r.error = NoError =>
                        /\ Score(matched_criteria)
                               >= Score(r.snap.matched_criteria)
                        /\ IncreasingCutoffs =>
                               Severity(state) >= Severity(r.snap.state)

C30_Witness ==
    /\ FirstCallOnFresh
    /\ IncreasingCutoffs
    /\ Len(thresholds) = 3
    /\ thresholds[1].name = "WARNING_UPDATES"
    /\ available_updates = <<"siun", "linux">>
    /\ Score(matched_criteria) = 4
    /\ state = "CRITICAL_UPDATES"
    /\ Score(UpdateOfFresh(<<"siun">>).snap.matched_criteria) = 1
    /\ Severity(UpdateOfFresh(<<"siun">>).snap.state) < Severity(state)

\* C23: after every successful update() the state is one of OK,
\* AVAILABLE_UPDATES, WARNING_UPDATES, CRITICAL_UPDATES, whatever the
\* threshold table, an empty one included; UNKNOWN is the state only of a
\* snapshot no update() has succeeded on.
C23_NeverUnknown ==
    /\ Succeeded => state \in States \ {"UNKNOWN"}
    /\ state = "UNKNOWN" => ~Succeeded /\ ~rehydrated


Matched(names) == [n \in names |-> [weight |-> 1]]

C5_NonPositiveWeightNotEvaluated ==
    /\ \A i \in DOMAIN evaluated : ConfiguredWeight(evaluated[i]) > 0
    /\ \A n \in DOMAIN matched_criteria : ConfiguredWeight(n) > 0
    /\ error.kind = "CriterionError" /\ error.criterion_name # NoName
           => ConfiguredWeight(error.criterion_name) > 0

C5_Witness ==
    /\ Succeeded
    /\ evaluated # <<>>
    /\ \E i \in DOMAIN registry :
           /\ ConfiguredWeight(registry[i].name) = 0
           /\ Outcome(registry[i].name) = "raise"
           /\ registry[i].name \notin Range(evaluated)

\* C6: update() executes a file of the criteria directory, and registers
\* its criterion, only if criteria_settings holds a weight > 0 under the
\* key <stem>_weight.
C6_OnlyEnabledFilesLoaded ==
    /\ \A stem \in executed : ConfiguredWeight(stem) > 0
    /\ \A i \in DOMAIN registry :
           registry[i].crit \in {"UserTrue", "UserFalse", "UserRaise"}
               => ConfiguredWeight(registry[i].name) > 0

\* C7: when the predicate of an enabled criterion raises, update() fails
\* with a CriterionError that names this criterion, and evaluates no
\* criterion later in registry order.
C7_FailFast ==
    /\ \A i \in DOMAIN evaluated :
           Outcome(evaluated[i]) = "raise" =>
               /\ error.kind = "CriterionError"
               /\ error.criterion_name = evaluated[i]
               /\ i = Len(evaluated)
               /\ \A j \in DOMAIN registry :
                      j > IndexOf(evaluated[i])
                          => registry[j].name \notin Range(evaluated)
    /\ error.kind = "CriterionError" /\ error.criterion_name # NoName =>
           /\ evaluated # <<>>
           /\ evaluated[Len(evaluated)] = error.criterion_name
           /\ Outcome(error.criterion_name) = "raise"

C7_Witness ==
    /\ error.kind = "CriterionError"
    /\ error.criterion_name = <<"count">>
    /\ <<"available">> \in Range(evaluated)
    /\ ConfiguredWeight(<<"critical">>) > 0
    /\ <<"critical">> \notin Range(evaluated)

----------------------------------------------------------------------------
(* Claims on persist_state and read_state. *)

\* C8: persist_state(path) followed by read_state(path) yields a record
\* whose available_updates (in order), matched_criteria (hence score),
\* state and last_update equal those of the persisted snapshot.
C8_RoundTrip ==
    (loaded.ppc = "idle" /\ loaded.persisted # <<>>) =>
        /\ loaded.kind = "state"
        /\ loaded.value.available_updates = loaded.persisted.available_updates
        /\ loaded.value.matched_criteria = loaded.persisted.matched_criteria
        /\ Score(loaded.value.matched_criteria)
               = Score(loaded.persisted.matched_criteria)
        /\ loaded.value.state = loaded.persisted.state
        /\ loaded.value.last_update = loaded.persisted.last_update

C8_Witness ==
    /\ loaded.kind = "state"
    /\ loaded.ppc = "idle"
    /\ ppc = "idle"
    /\ loaded.value.available_updates = <<"siun", "linux">>
    /\ loaded.value.state = "CRITICAL_UPDATES"
    /\ loaded.value.last_update % TicksPerSec # 0

\* C9: while a persist_state call is in progress the state file holds
\* either the complete previous content or the complete new content, so a
\* reader never gets an empty or partially written file.
C9_AtomicReplace ==
    /\ ppc # "idle" => file = prev_file \/ file.data = tmpfile
    /\ loaded.kind # "error"

\* The enum and the timestamp of the document data are tagged wrappers
\* {"py-type": <TypeName>, "value": <raw>}.
WrapperShape(data) ==
    /\ IsDocument(data)
    /\ data[5].value.pytype = "State"
    /\ data[6].value.pytype = "datetime"

\* C12: read_state on a file whose enum and timestamp fields have the
\* tagged-wrapper shape returns None: no error and no snapshot.
C12_WrapperShapeIsNone ==
    (loaded.reads = 1 /\ loaded.file.exists /\ WrapperShape(loaded.file.data))
        => loaded.kind = "none"

\* C13: read_state on a file that is truncated, is no JSON document, or
\* does not fit the schema (for a reason other than the wrapper shape)
\* raises: it returns neither None nor a snapshot.
C13_CorruptFileRaises ==
    ( /\ loaded.reads = 1
      /\ loaded.file.exists
      /\ loaded.file.data \in TruncatedDocuments \cup InvalidDocuments )
    => loaded.kind = "error"

C13_Witness ==
    /\ loaded.reads = 1
    /\ loaded.file.exists
    /\ loaded.file.data \in InvalidDocuments
    /\ loaded.kind = "error"

\* C14: read_state on a path without a file returns None, raises nothing
\* and creates no file (a state file exists only once persist_state wrote
\* one); a snapshot built without persisted data has state UNKNOWN, no
\* available updates, no matched criteria and score 0.
C14_ColdStart ==
    /\ (loaded.reads = 1 /\ ~loaded.file.exists) => loaded.kind = "none"
    /\ file.exists => persisted # <<>>
    /\ (calls = 0 /\ ~rehydrated) =>
           /\ state = "UNKNOWN"
           /\ available_updates = <<>>
           /\ matched_criteria = NoMatches
           /\ Score(matched_criteria) = 0

C14_Witness ==
    /\ loaded.reads = 1
    /\ ~loaded.file.exists
    /\ loaded.kind = "none"
    /\ ~file.exists
    /\ calls = 0
    /\ state = "UNKNOWN"

\* C25: when two invocations run persist_state on the same path at the same
\* time, then under every interleaving the state file, once both have
\* finished, holds the complete document of exactly one of them: no mixture
\* of the two and no truncated record.
C25_LastWriterWins ==
    (\A w \in Writers : writers[w].pc = "done") =>
        /\ file.exists
        /\ \E w \in Writers : file.data = writers[w].doc

----------------------------------------------------------------------------
(* Claims on main(). *)

\* Age of the snapshot the last invocation read, when it read one.
AgeAtRead == m_now - m_existing.value.last_update

\* C10: an invocation queries the update source and evaluates the criteria
\* only if the snapshot it read is absent or stale; a fresh snapshot is
\* reused as it is: no query, no criterion evaluated, nothing persisted.
C10_FreshIsReused ==
    /\ ( /\ "read" \in Range(m_log)
         /\ m_existing.kind = "state"
         /\ AgeAtRead < CacheAge )
       => /\ "fetch" \notin Range(m_log)
          /\ "update" \notin Range(m_log)
          /\ "persist" \notin Range(m_log)
    /\ ("fetch" \in Range(m_log) \/ "update" \in Range(m_log))
       => m_existing.kind = "none" \/ AgeAtRead >= CacheAge

\* C28: a loaded snapshot is stale if and only if now - last_update is
\* strictly greater than the minimum age; a snapshot whose age is exactly
\* the minimum age is fresh and is reused without a query of the update
\* source.
C28_StalenessBoundary ==
    ("read" \in Range(m_log) /\ m_existing.kind = "state") =>
        ("fetch" \in Range(m_log) <=> AgeAtRead > CacheAge)

\* How often the last invocation did e.
Times(e) == Cardinality({i \in DOMAIN m_log : m_log[i] = e})

\* The last invocation read no snapshot, or one at least CacheAge old.
AbsentOrStale ==
    /\ m_config = "ok"
    /\ m_existing.kind = "none" \/ AgeAtRead >= CacheAge

\* C11: an invocation that finds no snapshot or a stale one reads the state
\* once, then queries the update source once, then runs update() on the
\* fetched list, then persists the resulting snapshot once; the output is
\* that of the newly computed state.
C11_StaleRefreshes ==
    AbsentOrStale =>
        /\ SubSeq(m_log, 1, 3) = <<"config", "read", "fetch">>
        /\ Times("read") = 1
        /\ Times("fetch") = 1
        /\ m_fetch.kind \in {"lines", "silent"} =>
               /\ m_log = <<"config", "read", "fetch", "update", "persist",
                            "output">>
               /\ m_exit = 0
               /\ m_updates.available_updates = m_fetch.lines
               /\ m_updates.count = Len(m_fetch.lines)
               /\ m_updates.score >= 1 <=> m_fetch.lines # <<>>
               /\ m_updates.last_update = m_now
               /\ m_file.exists
               /\ MainReadState(m_file).value = m_updates
               /\ m_output = MainThresholds[m_updates.score]

C11_Witness ==
    /\ AbsentOrStale
    /\ m_existing.kind = "state"
    /\ m_existing.value.available_updates = <<>>
    /\ m_fetch.kind = "lines"
    /\ m_fetch.lines = <<"linux">>
    /\ m_output = "WARNING_UPDATES"
    /\ MainReadState(m_file).value.available_updates = <<"linux">>

\* C16: when the update command fails (exit code other than 0 with
\* diagnostic output, or no such executable) the invocation ends with exit
\* code 1; the command was run once, update() was not run and the
\* persisted snapshot is the one the invocation found.
C16_CommandFailure ==
    m_fetch.kind \in {"failed", "missing"} =>
        /\ m_exit = 1
        /\ Times("fetch") = 1
        /\ Times("update") = 0
        /\ Times("persist") = 0
        /\ Times("output") = 0
        /\ m_output = NoOutput
        /\ MainReadState(m_file) = m_existing

C16_Witness ==
    /\ m_fetch.kind = "failed"
    /\ m_exit = 1
    /\ m_existing.kind = "state"
    /\ m_existing.value.available_updates = <<"siun">>
    /\ MainReadState(m_file) = m_existing

----------------------------------------------------------------------------
(* Claims on check and _get_updates. *)

\* The last step was an invocation of check (m_config is set) or a call of
\* _get_updates on its own.
ViaCheck == m_config \in {"ok", "error"}

\* C22: with --no-cache an invocation never reads the persisted state and
\* never persists; it queries the update source exactly once and evaluates
\* the result. With --no-cache and --no-update together there is no update,
\* no read and no persist: check ends with exit code 1, and _get_updates
\* returns a snapshot with score 0.
C22_NoCache ==
    m_options.no_cache =>
        /\ Times("read") = 0
        /\ Times("persist") = 0
        /\ file = prev_file
        /\ (~m_options.no_update /\ m_config # "error") =>
               /\ Times("fetch") = 1
               /\ m_fetch # NoFetch
               /\ m_fetch.kind \in {"lines", "silent"} =>
                      /\ Times("update") = 1
                      /\ calls = 1
                      /\ ~rehydrated
                      /\ available_updates = m_fetch.lines
                      /\ last_update = m_now
                      /\ m_exit = 0
        /\ m_options.no_update =>
               /\ Times("fetch") = 0
               /\ Times("update") = 0
               /\ m_fetch = NoFetch
               /\ ViaCheck => m_exit = 1 /\ m_log = <<"config">>
               /\ ~ViaCheck =>
                      /\ calls = 0
                      /\ Score(matched_criteria) = 0
                      /\ m_log = <<>>

C22_Witness ==
    /\ m_options = [no_cache |-> TRUE, no_update |-> FALSE]
    /\ m_config = "ok"
    /\ file.exists
    /\ ReadStateResult(file).value.available_updates = <<"siun">>
    /\ m_fetch.kind = "lines"
    /\ available_updates = <<"siun", "linux">>
    /\ m_log = <<"config", "fetch", "update", "output">>

----------------------------------------------------------------------------
(* Claims on get_config and SiunConfig. *)

\* The keys of the criteria table get_config validates.
MergedKeys == DOMAIN DefaultCriteria \cup DOMAIN c_user.criteria

\* The names before the first "_" of keys whose <name>_weight is no key.
Lacking ==
    {k[1] : k \in {key \in MergedKeys :
                      Len(key) >= 2 /\ <<key[1], "weight">> \notin MergedKeys}}

Validated == c_result.kind \in {"config", "ValidationError"}

C19_UniqueNames ==
    (Validated /\ c_user.v2.given) =>
        LET l == c_user.v2.list
            shared == \E i, j \in DOMAIN l : i # j /\ l[i].name = l[j].name
        IN /\ shared => /\ c_result.kind = "ValidationError"
                         /\ "unique name" \in c_result.errors
           /\ ~shared => /\ c_result.kind = "config"
                          /\ c_result.v2_thresholds = l

C19_Witness ==
    /\ c_result.kind = "config"
    /\ c_user.v2.given
    /\ Len(c_user.v2.list) = 2
    /\ c_user.v2.list[1].name # c_user.v2.list[2].name
    /\ c_user.v2.list[1].score = c_user.v2.list[2].score

\* The criterion names the loader derives from the keys of the table:
\* setting.split("_weight")[0] of the keys that hold "_weight".
LoaderNames == {SplitWeight(k) : k \in {x \in MergedKeys : HasWeight(x)}}

\* The key is a setting of the criterion: <name>_<rest>.
SettingOf(key, name) ==
    Len(name) < Len(key) /\ SubSeq(key, 1, Len(name)) = name

\* Every setting of the table belongs to a criterion whose <name>_weight
\* key is in the table.
EveryWeightPresent ==
    \A k \in MergedKeys :
        Len(k) >= 2 => \E name \in LoaderNames : SettingOf(k, name)

\* C29: validation accepts every criteria table in which the <name>_weight
\* key of each criterion is present, also for a criterion whose name holds
\* an underscore (test_criterion_weight); the name the validator derives
\* from a key is the name the criterion loader derives from it.
C29_UnderscoreNames ==
    (Validated /\ ~c_user.v2.given /\ EveryWeightPresent) =>
        /\ c_result.kind = "config"
        /\ \A k \in MergedKeys : HasWeight(k) => <<k[1]>> = SplitWeight(k)

\* The v2_thresholds list that says what a legacy thresholds table says.
EquivalentV2(lg) ==
    [given |-> TRUE,
     list |-> <<V2Threshold("critical", lg.critical),
                V2Threshold("warning", lg.warning),
                V2Threshold("available", lg.available)>>]

NameScores(ths) == {<<ths[i].name, ths[i].score>> : i \in DOMAIN ths}

\* C20: for a legacy thresholds table {available: a, warning: w,
\* critical: c}, get_config yields v2_thresholds of exactly these names and
\* scores, and sorted_thresholds is that of the equivalent v2_thresholds
\* configuration.
C20_LegacyThresholds ==
    (c_result.kind = "config" /\ c_user.legacy.given) =>
        /\ NameScores(c_result.v2_thresholds) =
               {<<"available", c_user.legacy.available>>,
                <<"warning", c_user.legacy.warning>>,
                <<"critical", c_user.legacy.critical>>}
        /\ c_result.sorted_thresholds =
               GetConfigResult(UserConfig("ok", c_user.criteria,
                                          EquivalentV2(c_user.legacy),
                                          NoLegacy)).sorted_thresholds
====
